---- MODULE Spec2Model ----
(***************************************************************************)
(* Model of package httph (src/httph.go): the handler adapters JSONHandler *)
(* and FormHandler, ErrorHandler as the specification describes it, and    *)
(* the middleware ContentSecurityPolicy, GoGet and VersionedAssets.        *)
(*                                                                         *)
(* Under Spec one request is served per behaviour.  Init draws the         *)
(* adapter, the request type's capabilities and the request's input; each  *)
(* action is one stage of the handler closure, and pc is the closure's     *)
(* position.  The middleware closures are written per invocation, so that  *)
(* ConcSpec can serve several requests with one handler value and          *)
(* interleave their steps.                                                 *)
(*                                                                         *)
(* A JSON request body is a sequence of units, each standing for one       *)
(* lexical element of the body:                                            *)
(*   "{"  "}"   the braces of an object                                    *)
(*   "k"        the member "Name":"Me"                                     *)
(*   "1"        a digit (a number is a run of digits)                      *)
(*   " "        white space                                                *)
(*   "x"        a byte that begins no JSON value                           *)
(* and a size limit counts these units.                                    *)
(***************************************************************************)
EXTENDS Integers, Sequences, FiniteSets, TLC

VARIABLES
    handler,    \* which constructor built the handler value
    pc,         \* position inside the handler closure
    reqT,       \* capabilities of the type parameter Req
    body,       \* the request body as sent by the client
    rawForm,    \* the submitted form, as a sequence of key=value pairs
    rd,         \* r.Body: whether it is wrapped by the limiter, and reads made
    form,       \* r.Form after ParseForm
    req,        \* var req Req
    stages,     \* the stages the closure has entered, in order
    hCalls,     \* number of invocations of the application function h
    hReq,       \* the request value h received
    res,        \* the response value h returned
    err,        \* the error h returned
    buf,        \* var b bytes.Buffer
    w,          \* the http.ResponseWriter (the transport sink)
    calls,      \* every WriteHeader / Write call made on w, in order
    cfg,        \* the state the handler value closed over at construction
    cin,        \* per invocation: the request it serves
    cpc,        \* per invocation: position inside the closure
    mem,        \* the closures' local variables, one slot per allocation
    cout        \* per invocation: what the client and next observed

vars == <<handler, pc, reqT, body, rawForm, rd, form, req, stages, hCalls,
          hReq, res, err, buf, w, calls, cfg, cin, cpc, mem, cout>>

\* the variables of the per-invocation closures
mwvars == <<cfg, cin, cpc, mem, cout>>
\* the variables of the single-request adapter closures
advars == <<pc, rd, form, req, stages, hCalls, hReq, res, err, buf, w, calls>>

----------------------------------------------------------------------------
(* Bounds of the model *)

MaxBody == 3
MaxLimit == 2
MaxPairs == 2

(* Status codes named in the source *)

StatusOK == 200
StatusBadRequest == 400
StatusInternalServerError == 500

BoundedSeq(S, n) == UNION {[1..k -> S] : k \in 0..n}

----------------------------------------------------------------------------
(* Values *)

Units == {"{", "}", "k", "1", " ", "x"}
Bodies == BoundedSeq(Units, MaxBody)
Limits == 0..MaxLimit

\* Status codes a StatusCode() method may return: 0 is no status code at
\* all, 100 is informational, 204 forbids a body, 202 and 418 are ordinary.
Codes == {0, 100, 202, 204, 418}

ZeroReq == [Name |-> "", Age |-> 0, Hobbies |-> <<>>]

\* type validator interface { Validate() error }; "" is the nil error.
\* "absent": Req has no Validate method.  "name": validatedJSONReq of the
\* tests (Name must not be empty).  "never": validatedFormReq of the tests.
Validate(t, v) ==
    CASE t.validate = "name"  -> IF v.Name = "" THEN "name cannot be empty" ELSE ""
      [] t.validate = "never" -> "invalid"
      [] OTHER                -> ""

Validators == {"absent", "name", "never"}

\* type maxSizeGiver interface { MaxSizeBytes() int64 }
ReqTypes(h) ==
    CASE h = "json" ->
            {[hasMax |-> FALSE, max |-> 0, validate |-> v] : v \in {"absent", "name"}}
            \cup {[hasMax |-> TRUE, max |-> l, validate |-> v] :
                     l \in Limits, v \in {"absent", "name"}}
      [] h = "form" -> {[hasMax |-> FALSE, max |-> 0, validate |-> v] : v \in Validators}
      [] OTHER -> {[hasMax |-> FALSE, max |-> 0, validate |-> "absent"]}

\* http.StatusText for the codes of the model
StatusText(c) ==
    CASE c = 100 -> "Continue"
      [] c = 202 -> "Accepted"
      [] c = 204 -> "No Content"
      [] c = 418 -> "I'm a teapot"
      [] OTHER   -> ""

\* Error values the application function may return.
NoErr == [isNil |-> TRUE, msg |-> "", hasCode |-> FALSE, code |-> 0]
PlainErr == [isNil |-> FALSE, msg |-> "oh no", hasCode |-> FALSE, code |-> 0]
HTTPError(c) == [isNil |-> FALSE, msg |-> StatusText(c), hasCode |-> TRUE, code |-> c]
Errs == {NoErr, PlainErr} \cup {HTTPError(c) : c \in Codes \ {202}}

\* Response values the application function may return: nil, a struct with
\* a Message field, or a value json cannot encode (a channel); each with or
\* without a StatusCode() method.
NilRes == [val |-> "nil", hasCode |-> FALSE, code |-> 0]
Ress == {NilRes,
         [val |-> "msg", hasCode |-> FALSE, code |-> 0],
         [val |-> "chan", hasCode |-> FALSE, code |-> 0],
         [val |-> "chan", hasCode |-> TRUE, code |-> 202]}
        \cup {[val |-> "msg", hasCode |-> TRUE, code |-> c] : c \in Codes \ {418}}

----------------------------------------------------------------------------
(* net/http ResponseWriter, as the handler's calls on w use it *)

NewWriter == [wroteHeader |-> FALSE, status |-> 0, body |-> "", ctype |-> "",
              informational |-> 0]

\* checkWriteHeaderCode: WriteHeader panics on a code outside 100..999
ValidCode(c) == c >= 100 /\ c <= 999
Informational(c) == c >= 100 /\ c <= 199 /\ c # 101
\* bodyAllowedForStatus
BodyAllowed(c) == ~(c >= 100 /\ c <= 199) /\ c # 204 /\ c # 304

\* w.WriteHeader(code): [w, panic]
WriteHeader(rw, code) ==
    IF rw.wroteHeader THEN [w |-> rw, panic |-> FALSE]
    ELSE IF ~ValidCode(code) THEN [w |-> rw, panic |-> TRUE]
    ELSE IF Informational(code)
         THEN [w |-> [rw EXCEPT !.informational = @ + 1], panic |-> FALSE]
    ELSE [w |-> [rw EXCEPT !.wroteHeader = TRUE, !.status = code], panic |-> FALSE]

\* w.Write(data): commits status 200 first if no status was committed, and
\* drops the data when the status allows no body.
Write(rw, data) ==
    LET h == IF rw.wroteHeader THEN rw ELSE WriteHeader(rw, StatusOK).w
    IN  IF BodyAllowed(h.status) THEN [h EXCEPT !.body = @ \o data] ELSE h

Call(by, op, code, data) == [by |-> by, op |-> op, code |-> code, data |-> data]

\* The closure calls w.WriteHeader(code) and then writes data in one Write;
\* a panic in WriteHeader ends the closure before the Write.
Respond(rw, code, data) ==
    LET h == WriteHeader(rw, code)
    IN  IF h.panic
        THEN [w |-> h.w, panic |-> TRUE,
              calls |-> <<Call("adapter", "WriteHeader", code, "")>>]
        ELSE [w |-> Write(h.w, data), panic |-> FALSE,
              calls |-> <<Call("adapter", "WriteHeader", code, ""),
                          Call("adapter", "Write", 0, data)>>]

\* type errorResponse struct { Error string }, encoded by writeResponse
Envelope(msg) == "{\"Error\":\"" \o msg \o "\"}\n"

\* http.Error(w, msg, code): plain text headers, the status, msg and a newline
HttpError(rw, msg, code) ==
    Respond([rw EXCEPT !.ctype = "text/plain; charset=utf-8"], code, msg \o "\n")

----------------------------------------------------------------------------
(* r.Body, bufio.Reader and json.Decoder, as lines 76-92 use them *)

\* What r.Body delivers: http.MaxBytesReader yields at most n units and
\* then fails when the body is longer; otherwise the body ends with EOF.
Stream(b, limited, n) ==
    IF limited /\ Len(b) > n
    THEN [bytes |-> SubSeq(b, 1, n), end |-> "TooLarge"]
    ELSE [bytes |-> b, end |-> "EOF"]

\* br.Peek(1) returns a nil error iff one unit could be read
PeekErr(s) ==
    IF Len(s.bytes) >= 1 THEN ""
    ELSE IF s.end = "TooLarge" THEN "http: request body too large" ELSE "EOF"

Ok(v) == [val |-> v, err |-> ""]
Fail(e) == [val |-> ZeroReq, err |-> e]

TypeError == "json: cannot unmarshal number into Go value of type Req"

\* dec.Decode(&req): reads the first JSON value of the stream into v; what
\* follows the value is not looked at.  st: "top" before the value, "obj"
\* after "{", "member" after the member, "num" inside a number.  A number
\* ends at the first unit that is no digit or at the end of the body, and
\* is no value for a struct.
RECURSIVE Scan(_, _, _, _)
Scan(s, i, st, v) ==
    IF i > Len(s.bytes)
    THEN IF s.end = "TooLarge" THEN Fail("http: request body too large")
         ELSE IF st = "top" THEN Fail("EOF")
         ELSE IF st = "num" THEN Fail(TypeError)
         ELSE Fail("unexpected EOF")
    ELSE LET c == s.bytes[i]
         IN  IF st = "num"
             THEN IF c = "1" THEN Scan(s, i + 1, "num", v) ELSE Fail(TypeError)
             ELSE IF c = " " THEN Scan(s, i + 1, st, v)
             ELSE IF st = "top"
                  THEN IF c = "{" THEN Scan(s, i + 1, "obj", v)
                       ELSE IF c = "1" THEN Scan(s, i + 1, "num", v)
                       ELSE Fail("invalid character")
             ELSE IF st = "obj"
                  THEN IF c = "}" THEN Ok(v)
                       ELSE IF c = "k"
                            THEN Scan(s, i + 1, "member", [v EXCEPT !.Name = "Me"])
                       ELSE Fail("invalid character")
             ELSE IF c = "}" THEN Ok(v)
                  ELSE Fail("invalid character")

Decode(s, v) == Scan(s, 1, "top", v)

\* json.NewEncoder(&b).Encode(res): the encoding and a newline, or an error
Encode(r) ==
    CASE r.val = "nil"  -> [data |-> "null\n", err |-> ""]
      [] r.val = "msg"  -> [data |-> "{\"Message\":\"Yo\"}\n", err |-> ""]
      [] OTHER          -> [data |-> "", err |-> "json: unsupported type: chan int"]

NoBuf == [done |-> FALSE, data |-> "", err |-> ""]

----------------------------------------------------------------------------
(* JSONHandler, src/httph.go lines 72-125 *)

\* r.Body as the closure reads it
JSONStream == Stream(body, rd.limited, reqT.max)

\* if req, ok := any(req).(maxSizeGiver); ok { r.Body = http.MaxBytesReader(...) }
JSONWrap ==
    /\ handler = "json" /\ pc = "start"
    /\ rd' = [rd EXCEPT !.limited = reqT.hasMax]
    /\ pc' = "peek"
    /\ UNCHANGED mwvars
    /\ UNCHANGED <<handler, reqT, body, rawForm, form, req, stages, hCalls,
                   hReq, res, err, buf, w, calls>>

\* Mutant: the body is taken as absent unless two units can be read
PeekSkipsShort(s) == Len(s.bytes) <= 1

\* if _, err := br.Peek(1); err == nil { ... }
PeekSkips(s) == PeekErr(s) # ""

JSONPeek ==
    /\ handler = "json" /\ pc = "peek"
    /\ rd' = [rd EXCEPT !.reads = @ + 1]
    /\ pc' = IF PeekSkips(JSONStream) THEN "invoke" ELSE "decode"
    /\ UNCHANGED mwvars
    /\ UNCHANGED <<handler, reqT, body, rawForm, form, req, stages, hCalls,
                   hReq, res, err, buf, w, calls>>

DecodeErrorMessage(cause) == "error decoding request body as JSON: " \o cause

\* Mutant: the decode error is answered but the closure does not return
JSONDecodeNoReturn ==
    /\ handler = "json" /\ pc = "decode"
    /\ stages' = Append(stages, "decode")
    /\ LET d == Decode(JSONStream, req)
       IN  IF d.err # ""
           THEN LET out == Respond(w, StatusBadRequest,
                                   Envelope(DecodeErrorMessage(d.err)))
                IN  /\ w' = out.w
                    /\ calls' = calls \o out.calls
                    /\ pc' = IF out.panic THEN "panic" ELSE "invoke"
                    /\ req' = req
           ELSE /\ req' = d.val
                /\ pc' = "invoke"
                /\ UNCHANGED <<w, calls>>
    /\ UNCHANGED mwvars
    /\ UNCHANGED <<handler, reqT, body, rawForm, rd, form, hCalls, hReq, res,
                   err, buf>>

\* if err := dec.Decode(&req); err != nil { w.WriteHeader(400); writeResponse(...); return }
JSONDecode ==
    /\ handler = "json" /\ pc = "decode"
    /\ stages' = Append(stages, "decode")
    /\ LET d == Decode(JSONStream, req)
       IN  IF d.err # ""
           THEN LET out == Respond(w, StatusBadRequest,
                                   Envelope(DecodeErrorMessage(d.err)))
                IN  /\ w' = out.w
                    /\ calls' = calls \o out.calls
                    /\ pc' = IF out.panic THEN "panic" ELSE "done"
                    /\ req' = req
           ELSE /\ req' = d.val
                /\ pc' = "invoke"
                /\ UNCHANGED <<w, calls>>
    /\ UNCHANGED mwvars
    /\ UNCHANGED <<handler, reqT, body, rawForm, rd, form, hCalls, hReq, res,
                   err, buf>>

\* res, err := h(w, r, req).  The application function of a JSONHandler
\* returns its response and does not write to w.
JSONInvoke ==
    /\ handler = "json" /\ pc = "invoke"
    /\ stages' = Append(stages, "invoke")
    /\ hCalls' = hCalls + 1
    /\ hReq' = req
    /\ \E e \in Errs, r \in Ress : err' = e /\ res' = r
    /\ pc' = IF err'.isNil THEN "encode" ELSE "fail"
    /\ UNCHANGED mwvars
    /\ UNCHANGED <<handler, reqT, body, rawForm, rd, form, req, buf, w, calls>>

\* Mutant: the error's StatusCode() is not consulted
ErrorStatusAlways500(e) == StatusInternalServerError

\* code := http.StatusInternalServerError
\* if err, ok := err.(statusCodeGiver); ok { code = err.StatusCode() }
ErrorStatus(e) == IF e.hasCode THEN e.code ELSE StatusInternalServerError

\* if err != nil { ...; w.WriteHeader(code); writeResponse(w, errorResponse{...}); return }
JSONHandlerError ==
    /\ handler = "json" /\ pc = "fail"
    /\ LET out == Respond(w, ErrorStatus(err), Envelope(err.msg))
       IN  /\ w' = out.w
           /\ calls' = calls \o out.calls
           /\ pc' = IF out.panic THEN "panic" ELSE "done"
    /\ UNCHANGED mwvars
    /\ UNCHANGED <<handler, reqT, body, rawForm, rd, form, req, stages, hCalls,
                   hReq, res, err, buf>>

EncodeErrorMessage(cause) == "error encoding response body as JSON: " \o cause

\* Mutant: the encode error is answered but the closure does not return
JSONEncodeNoReturn ==
    /\ handler = "json" /\ pc = "encode"
    /\ stages' = Append(stages, "encode")
    /\ LET e == Encode(res)
       IN  /\ buf' = [done |-> TRUE, data |-> e.data, err |-> e.err]
           /\ IF e.err # ""
              THEN LET out == Respond(w, StatusInternalServerError,
                                      Envelope(EncodeErrorMessage(e.err)))
                   IN  /\ w' = out.w
                       /\ calls' = calls \o out.calls
                       /\ pc' = IF out.panic THEN "panic" ELSE "write"
              ELSE /\ pc' = "write"
                   /\ UNCHANGED <<w, calls>>
    /\ UNCHANGED mwvars
    /\ UNCHANGED <<handler, reqT, body, rawForm, rd, form, req, hCalls, hReq,
                   res, err>>

\* Mutant: the status is committed first and the response value is encoded
\* straight to w, without the buffer
JSONEncodeToWriter ==
    /\ handler = "json" /\ pc = "encode"
    /\ stages' = Append(stages, "encode")
    /\ LET e == Encode(res)
           code == IF res.hasCode THEN res.code ELSE StatusOK
           h == WriteHeader(w, code)
       IN  /\ buf' = buf
           /\ IF h.panic
              THEN /\ w' = h.w
                   /\ calls' = Append(calls, Call("adapter", "WriteHeader", code, ""))
                   /\ pc' = "panic"
              ELSE /\ w' = Write(h.w, IF e.err # ""
                                      THEN Envelope(EncodeErrorMessage(e.err))
                                      ELSE e.data)
                   /\ calls' = calls \o
                         <<Call("adapter", "WriteHeader", code, ""),
                           Call("adapter", "Write", 0,
                                IF e.err # "" THEN Envelope(EncodeErrorMessage(e.err))
                                ELSE e.data)>>
                   /\ pc' = "done"
    /\ UNCHANGED mwvars
    /\ UNCHANGED <<handler, reqT, body, rawForm, rd, form, req, hCalls, hReq,
                   res, err>>

\* var b bytes.Buffer
\* if err := json.NewEncoder(&b).Encode(res); err != nil { 500 ...; return }
JSONEncode ==
    /\ handler = "json" /\ pc = "encode"
    /\ stages' = Append(stages, "encode")
    /\ LET e == Encode(res)
       IN  /\ buf' = [done |-> TRUE, data |-> e.data, err |-> e.err]
           /\ IF e.err # ""
              THEN LET out == Respond(w, StatusInternalServerError,
                                      Envelope(EncodeErrorMessage(e.err)))
                   IN  /\ w' = out.w
                       /\ calls' = calls \o out.calls
                       /\ pc' = IF out.panic THEN "panic" ELSE "done"
              ELSE /\ pc' = "write"
                   /\ UNCHANGED <<w, calls>>
    /\ UNCHANGED mwvars
    /\ UNCHANGED <<handler, reqT, body, rawForm, rd, form, req, hCalls, hReq,
                   res, err>>

\* code := http.StatusOK
\* if res, ok := any(res).(statusCodeGiver); ok { code = res.StatusCode() }
SuccessStatus(r) == IF r.hasCode THEN r.code ELSE StatusOK

\* w.WriteHeader(code); _, _ = io.Copy(w, &b)
JSONWrite ==
    /\ handler = "json" /\ pc = "write"
    /\ LET out == Respond(w, SuccessStatus(res), buf.data)
       IN  /\ w' = out.w
           /\ calls' = calls \o out.calls
           /\ pc' = IF out.panic THEN "panic" ELSE "done"
    /\ UNCHANGED mwvars
    /\ UNCHANGED <<handler, reqT, body, rawForm, rd, form, req, stages, hCalls,
                   hReq, res, err, buf>>

----------------------------------------------------------------------------
(* The submitted form, r.ParseForm and mapstructure.WeakDecode *)

\* "Name", "name" and "NAME" all match the field Name; "zip" matches no field
Keys == {"Name", "name", "NAME", "age", "hobbies", "zip"}
Vals == {"Me", "20"}

\* A pair that url.ParseQuery rejects (an invalid escape such as "%zz")
BadPair == [k |-> "%", v |-> ""]
Pairs == [k : Keys, v : Vals] \cup {BadPair}
RawForms == BoundedSeq(Pairs, MaxPairs)

\* The values submitted under key k, in submission order
ValuesOf(raw, k) ==
    LET sel == SelectSeq(raw, LAMBDA p : p.k = k)
    IN  [i \in 1..Len(sel) |-> sel[i].v]

\* r.ParseForm(): r.Form maps every submitted key to the list of its values;
\* the first malformed pair is the error.
ParseForm(raw) ==
    [form |-> [k \in {raw[i].k : i \in 1..Len(raw)} \ {BadPair.k} |-> ValuesOf(raw, k)],
     err  |-> IF \E i \in 1..Len(raw) : raw[i] = BadPair
              THEN "invalid URL escape \"%zz\"" ELSE ""]

\* Mutant: every key maps to r.Form.Get(k), its first value
FormMapFirstValue(f) ==
    [k \in DOMAIN f |-> [isList |-> FALSE, s |-> f[k][1], l |-> <<>>]]

\* form := map[string]any{}; for k := range r.Form { ... }
\* a key with more than one value maps to the list, any other to r.Form.Get(k)
FormMap(f) ==
    [k \in DOMAIN f |->
        IF Len(f[k]) > 1
        THEN [isList |-> TRUE, s |-> "", l |-> f[k]]
        ELSE [isList |-> FALSE, s |-> f[k][1], l |-> <<>>]]

\* strings.EqualFold on the keys of the model
Fold(k) ==
    CASE k \in {"Name", "name", "NAME"} -> "name"
      [] k \in {"Age", "age"}           -> "age"
      [] k \in {"Hobbies", "hobbies"}   -> "hobbies"
      [] OTHER                          -> k

\* The map keys mapstructure may take for a field: the exactly named key if
\* the map has it, otherwise any key equal to the name under case folding
\* (the search ranges over a Go map, so which one is found is not fixed).
KeysFor(m, field) ==
    IF field \in DOMAIN m THEN {field}
    ELSE {k \in DOMAIN m : Fold(k) = Fold(field)}

\* Weak decoding of one map value into a string, an int and a []string field
DecodeString(v) ==
    IF v.isList
    THEN [val |-> "", err |-> "'Name' expected type 'string', got unconvertible type '[]string'"]
    ELSE [val |-> v.s, err |-> ""]

DecodeInt(v) ==
    IF v.isList
    THEN [val |-> 0, err |-> "'Age' expected type 'int', got unconvertible type '[]string'"]
    ELSE CASE v.s = "20" -> [val |-> 20, err |-> ""]
           [] v.s = ""   -> [val |-> 0, err |-> ""]
           [] OTHER      -> [val |-> 0, err |-> "cannot parse 'Age' as int"]

DecodeSlice(v) ==
    IF v.isList THEN [val |-> v.l, err |-> ""] ELSE [val |-> <<v.s>>, err |-> ""]

Absent == "<absent>"
Pick(m, field) == IF KeysFor(m, field) = {} THEN {Absent} ELSE KeysFor(m, field)

\* mapstructure.WeakDecode(form, &req) with the map keys kn, ka, kh supplying
\* the fields Name, Age, Hobbies (Absent: the field keeps its zero value).
\* All field errors are reported together.
WeakDecodeWith(m, kn, ka, kh) ==
    LET n == IF kn = Absent THEN [val |-> "", err |-> ""] ELSE DecodeString(m[kn])
        a == IF ka = Absent THEN [val |-> 0, err |-> ""] ELSE DecodeInt(m[ka])
        h == IF kh = Absent THEN [val |-> <<>>, err |-> ""] ELSE DecodeSlice(m[kh])
        e == (IF n.err = "" THEN "" ELSE "* " \o n.err \o "\n")
             \o (IF a.err = "" THEN "" ELSE "* " \o a.err \o "\n")
    IN  [val |-> [Name |-> n.val, Age |-> a.val, Hobbies |-> h.val],
         err |-> IF e = "" THEN "" ELSE "error(s) decoding:\n\n" \o e]

\* Every result WeakDecode may produce for the map m
WeakDecode(m) ==
    {WeakDecodeWith(m, kn, ka, kh) :
        kn \in Pick(m, "Name"), ka \in Pick(m, "Age"), kh \in Pick(m, "Hobbies")}

\* What the application function of a FormHandler or ErrorHandler writes
\* to w: nothing, or one response.
AppResponses == {<<>>, <<Call("app", "WriteHeader", 202, ""),
                         Call("app", "Write", 0, "success")>>}

RECURSIVE Apply(_, _)
Apply(rw, cs) ==
    IF cs = <<>> THEN rw
    ELSE LET c == Head(cs)
         IN  Apply(IF c.op = "WriteHeader" THEN WriteHeader(rw, c.code).w
                   ELSE Write(rw, c.data), Tail(cs))

----------------------------------------------------------------------------
(* FormHandler, src/httph.go lines 27-57 *)

\* if err := r.ParseForm(); err != nil { http.Error(w, err.Error(), 400); return }
FormParse ==
    /\ handler = "form" /\ pc = "start"
    /\ stages' = Append(stages, "parse")
    /\ LET p == ParseForm(rawForm)
       IN  /\ form' = p.form
           /\ IF p.err # ""
              THEN LET out == HttpError(w, p.err, StatusBadRequest)
                   IN  /\ w' = out.w
                       /\ calls' = calls \o out.calls
                       /\ pc' = IF out.panic THEN "panic" ELSE "done"
              ELSE /\ pc' = "decode"
                   /\ UNCHANGED <<w, calls>>
    /\ UNCHANGED mwvars
    /\ UNCHANGED <<handler, reqT, body, rawForm, rd, req, hCalls, hReq, res,
                   err, buf>>

\* if err := mapstructure.WeakDecode(form, &req); err != nil { http.Error(...); return }
FormDecode ==
    /\ handler = "form" /\ pc = "decode"
    /\ stages' = Append(stages, "decode")
    /\ \E d \in WeakDecode(FormMap(form)) :
          IF d.err # ""
          THEN LET out == HttpError(w, d.err, StatusBadRequest)
               IN  /\ w' = out.w
                   /\ calls' = calls \o out.calls
                   /\ pc' = IF out.panic THEN "panic" ELSE "done"
                   /\ req' = req
          ELSE /\ req' = d.val
               /\ pc' = "validate"
               /\ UNCHANGED <<w, calls>>
    /\ UNCHANGED mwvars
    /\ UNCHANGED <<handler, reqT, body, rawForm, rd, form, hCalls, hReq, res,
                   err, buf>>

FormValidationMessage(cause) == "invalid form: " \o cause

\* Mutant: the validation error is answered but the closure does not return
FormValidateNoReturn ==
    /\ handler = "form" /\ pc = "validate"
    /\ IF reqT.validate # "absent"
       THEN /\ stages' = Append(stages, "validate")
            /\ IF Validate(reqT, req) # ""
               THEN LET out == HttpError(w, FormValidationMessage(Validate(reqT, req)),
                                         StatusBadRequest)
                    IN  /\ w' = out.w
                        /\ calls' = calls \o out.calls
                        /\ pc' = IF out.panic THEN "panic" ELSE "invoke"
               ELSE /\ pc' = "invoke"
                    /\ UNCHANGED <<w, calls>>
       ELSE /\ pc' = "invoke"
            /\ UNCHANGED <<stages, w, calls>>
    /\ UNCHANGED mwvars
    /\ UNCHANGED <<handler, reqT, body, rawForm, rd, form, req, hCalls, hReq,
                   res, err, buf>>

\* if req, ok := any(req).(validator); ok { if err := req.Validate(); err != nil {...} }
FormValidate ==
    /\ handler = "form" /\ pc = "validate"
    /\ IF reqT.validate # "absent"
       THEN /\ stages' = Append(stages, "validate")
            /\ IF Validate(reqT, req) # ""
               THEN LET out == HttpError(w, FormValidationMessage(Validate(reqT, req)),
                                         StatusBadRequest)
                    IN  /\ w' = out.w
                        /\ calls' = calls \o out.calls
                        /\ pc' = IF out.panic THEN "panic" ELSE "done"
               ELSE /\ pc' = "invoke"
                    /\ UNCHANGED <<w, calls>>
       ELSE /\ pc' = "invoke"
            /\ UNCHANGED <<stages, w, calls>>
    /\ UNCHANGED mwvars
    /\ UNCHANGED <<handler, reqT, body, rawForm, rd, form, req, hCalls, hReq,
                   res, err, buf>>

\* h(w, r, req): the application function writes the response itself
FormInvoke ==
    /\ handler = "form" /\ pc = "invoke"
    /\ stages' = Append(stages, "invoke")
    /\ hCalls' = hCalls + 1
    /\ hReq' = req
    /\ \E a \in AppResponses :
          /\ w' = Apply(w, a)
          /\ calls' = calls \o a
    /\ pc' = "done"
    /\ UNCHANGED mwvars
    /\ UNCHANGED <<handler, reqT, body, rawForm, rd, form, req, res, err, buf>>

----------------------------------------------------------------------------
(* ErrorHandler, specification section 4.6 *)

\* err := h(w, r): the application function writes its own response when it
\* succeeds and returns only an error when it fails.
ErrorInvoke ==
    /\ handler = "error" /\ pc = "start"
    /\ stages' = Append(stages, "invoke")
    /\ hCalls' = hCalls + 1
    /\ \E e \in Errs, a \in AppResponses :
          /\ (~e.isNil => a = <<>>)
          /\ err' = e
          /\ w' = Apply(w, a)
          /\ calls' = calls \o a
    /\ pc' = IF err'.isNil THEN "done" ELSE "fail"
    /\ UNCHANGED mwvars
    /\ UNCHANGED <<handler, reqT, body, rawForm, rd, form, req, hReq, res, buf>>

\* Mutant: the error's StatusCode() is not consulted
ErrorHandlerStatusAlways500(e) == StatusInternalServerError

\* resolve status via StatusCoded on the error (default 500)
ErrorHandlerStatus(e) == IF e.hasCode THEN e.code ELSE StatusInternalServerError

\* write that status and a plain-text body equal to the error's message
ErrorRespond ==
    /\ handler = "error" /\ pc = "fail"
    /\ LET out == HttpError(w, err.msg, ErrorHandlerStatus(err))
       IN  /\ w' = out.w
           /\ calls' = calls \o out.calls
           /\ pc' = IF out.panic THEN "panic" ELSE "done"
    /\ UNCHANGED mwvars
    /\ UNCHANGED <<handler, reqT, body, rawForm, rd, form, req, stages, hCalls,
                   hReq, res, err, buf>>

----------------------------------------------------------------------------
(* Middleware.  A handler value is built once and its closure runs once    *)
(* per request: cfg is what the closure captured, cin[i] the request of    *)
(* invocation i, cpc[i] its position, cout[i] what it did to its own       *)
(* ResponseWriter and to next, and mem holds the closure's locals.         *)

MaxAssigned == 2
MaxSegs == 3
MaxPath == 6

StatusPermanentRedirect == 308

Unset == "<unset>"

\* the closure's local variables before any is assigned
NoLocals == [opts |-> <<>>, parts |-> <<>>, module |-> "", req |-> ZeroReq]

NInv == 2

\* Mutant: the locals are allocated once, outside the func literal
SlotShared(i) == 1

\* Every run of the closure allocates its own locals (":=" and "var" inside
\* the func literal), so invocation i uses a slot of its own.
Slot(i) == i

\* a request: URL path, the go-get query parameter, and for the adapters the
\* body or form, and what the application function returns for it
NoRequest == [path |-> <<"/">>, goget |-> "", body |-> <<>>, rawForm |-> <<>>,
              err |-> NoErr, res |-> NilRes, app |-> <<>>]

\* nothing written, next not called
NoResponse == [csp |-> Unset, location |-> "", w |-> NewWriter, panic |-> "",
               urlPath |-> <<>>,
               nextCalls |-> 0, nextPath |-> <<>>, nextCsp |-> Unset,
               hCalls |-> 0, hReq |-> ZeroReq]

\* what a constructor without options captures
NoCfg == [state |-> "built", optsFunc |-> [isNil |-> TRUE, sets |-> <<>>], domain |-> "", modules |-> <<>>,
          urlPrefix |-> <<>>, moduleSet |-> {}, panic |-> ""]

\* strings are handled as sequences of pieces; Join is the string they spell
RECURSIVE Join(_)
Join(ps) == IF ps = <<>> THEN "" ELSE Head(ps) \o Join(Tail(ps))

\* next.ServeHTTP(w, r): next sees the request path and the headers set so far
ServeNext(o, path) ==
    [o EXCEPT !.nextCalls = @ + 1, !.nextPath = path, !.nextCsp = o.csp]

----------------------------------------------------------------------------
(* ContentSecurityPolicy, lines 183-232 *)

\* the directives in the order of lines 199-219, with the option each reads
Directives ==
    << [name |-> "default-src",     field |-> "DefaultSrc"],
       [name |-> "child-src",       field |-> "ChildSrc"],
       [name |-> "connect-src",     field |-> "ConnectSrc"],
       [name |-> "font-src",        field |-> "FontSrc"],
       [name |-> "frame-src",       field |-> "FrameSrc"],
       [name |-> "img-src",         field |-> "ImgSrc"],
       [name |-> "manifest-src",    field |-> "ManifestSrc"],
       [name |-> "media-src",       field |-> "MediaSrc"],
       [name |-> "object-src",      field |-> "ObjectSrc"],
       [name |-> "script-src",      field |-> "ScriptSrc"],
       [name |-> "script-src-elem", field |-> "ScriptSrcElem"],
       [name |-> "script-src-attr", field |-> "ScriptSrcAttr"],
       [name |-> "style-src",       field |-> "StyleSrc"],
       [name |-> "style-src-elem",  field |-> "StyleSrcElem"],
       [name |-> "style-src-attr",  field |-> "StyleSrcAttr"],
       [name |-> "worker-src",      field |-> "WorkerSrc"],
       [name |-> "base-uri",        field |-> "BaseURI"],
       [name |-> "sandbox",         field |-> "Sandbox"],
       [name |-> "form-action",     field |-> "FormAction"],
       [name |-> "frame-ancestors", field |-> "FrameAncestors"],
       [name |-> "report-to",       field |-> "ReportTo"] >>

\* type ContentSecurityPolicyOptions struct
OptionFields == {Directives[k].field : k \in 1..Len(Directives)}

\* opts := &ContentSecurityPolicyOptions{...}: the fields the literal names,
\* every other field the empty string
DefaultOptions ==
    [f \in OptionFields |->
        CASE f = "DefaultSrc" -> "'none'"
          [] f \in {"FontSrc", "ImgSrc", "ScriptSrc", "StyleSrc"} -> "'self'"
          [] OTHER -> ""]

\* values an options function assigns
OptionValues == {"", "https:"}

RECURSIVE SubsetsUpTo(_, _)
SubsetsUpTo(S, k) ==
    IF k = 0 THEN {{}}
    ELSE LET P == SubsetsUpTo(S, k - 1)
         IN  P \cup {p \cup {x} : p \in P, x \in S}

\* optsFunc: nil, or a function that assigns values to some of the fields
NilOptsFunc == [isNil |-> TRUE, sets |-> <<>>]
OptsFuncs ==
    {NilOptsFunc} \cup
    {[isNil |-> FALSE, sets |-> g] :
        g \in UNION {[F -> OptionValues] : F \in SubsetsUpTo(OptionFields, MaxAssigned)}}

\* if optsFunc != nil { optsFunc(opts) }
ApplyOptsFunc(f, opts) ==
    IF f.isNil THEN opts
    ELSE [x \in OptionFields |-> IF x \in DOMAIN f.sets THEN f.sets[x] ELSE opts[x]]

\* fmt.Sprintf("%v %v; ", name, value), or nothing for an empty value
maybeAddDirective(name, value) ==
    IF value = "" THEN <<>> ELSE <<name, " ", value, ";", " ">>

\* strings.TrimSpace: white space at both ends goes
RECURSIVE TrimSpace(_)
TrimSpace(ps) ==
    IF ps = <<>> THEN ps
    ELSE IF Head(ps) = " " THEN TrimSpace(Tail(ps))
    ELSE IF ps[Len(ps)] = " " THEN TrimSpace(SubSeq(ps, 1, Len(ps) - 1))
    ELSE ps

\* strings.TrimSuffix: one trailing occurrence of the suffix goes
TrimSuffix(ps, suffix) ==
    IF ps # <<>> /\ ps[Len(ps)] = suffix THEN SubSeq(ps, 1, Len(ps) - 1) ELSE ps

\* v after lines 198-219 have handled the first k directives
RECURSIVE Directive(_, _)
Directive(opts, k) ==
    IF k = 0 THEN <<>>
    ELSE Directive(opts, k - 1)
         \o maybeAddDirective(Directives[k].name, opts[Directives[k].field])

\* lines 186-196: the defaults, then the options function on them
CSPOptions(i) ==
    /\ handler = "csp" /\ cpc[i] = "start"
    /\ mem' = [mem EXCEPT ![Slot(i)].opts = ApplyOptsFunc(cfg.optsFunc, DefaultOptions)]
    /\ cpc' = [cpc EXCEPT ![i] = "opts"]
    /\ UNCHANGED <<handler, reqT, body, rawForm, cfg, cin, cout>>
    /\ UNCHANGED advars

\* lines 198-221: build v and set the header
CSPSetHeader(i) ==
    /\ handler = "csp" /\ cpc[i] = "opts"
    /\ LET v == Directive(mem[Slot(i)].opts, Len(Directives))
       IN  cout' = [cout EXCEPT ![i].csp = Join(TrimSuffix(TrimSpace(v), ";"))]
    /\ cpc' = [cpc EXCEPT ![i] = "header"]
    /\ UNCHANGED <<handler, reqT, body, rawForm, cfg, cin, mem>>
    /\ UNCHANGED advars

\* line 222
CSPNext(i) ==
    /\ handler = "csp" /\ cpc[i] = "header"
    /\ cout' = [cout EXCEPT ![i] = ServeNext(@, cin[i].path)]
    /\ cpc' = [cpc EXCEPT ![i] = "done"]
    /\ UNCHANGED <<handler, reqT, body, rawForm, cfg, cin, mem>>
    /\ UNCHANGED advars

----------------------------------------------------------------------------
(* GoGet, lines 237-305.  A URL path is a sequence of units: "/" is the    *)
(* separator, any other unit is a run of bytes of a path segment.  The     *)
(* URL prefix is a sequence of pieces as well, "http" and "/" being pieces *)
(* of their own.                                                           *)

MaxModules == 2

SegUnits == {"/", "httph", "x"}
GoGetPaths == BoundedSeq(SegUnits, MaxSegs)
\* r.URL.Query().Get("go-get"): "" when the parameter is absent
GoGetParams == {"", "1", "0"}

\* type GoGetOptions struct
GoGetOptionsSet ==
    [Domain : {"", "maragu.dev"},
     Modules : BoundedSeq({"", "httph", "x"}, MaxModules),
     URLPrefix : {<<>>, <<"ftp://x">>,
                  <<"http", "s://github.com/maragudk">>,
                  <<"http", "s://github.com/maragudk", "/">>}]

\* strings.HasPrefix(opts.URLPrefix, "http")
HasPrefix(ps, prefix) == ps # <<>> /\ Head(ps) = prefix

\* lines 246-269: the panic message of the constructor ("" when it returns),
\* and what the returned closure captures
GoGetNew(opts) ==
    LET msg == IF opts.Domain = "" THEN "invalid domain"
               ELSE IF Len(opts.Modules) = 0 THEN "no modules"
               ELSE IF \E k \in 1..Len(opts.Modules) : opts.Modules[k] = ""
                    THEN "invalid module"
               ELSE IF ~HasPrefix(opts.URLPrefix, "http") THEN "invalid URL prefix"
               ELSE ""
    IN  IF msg # ""
        THEN [NoCfg EXCEPT !.state = "panic", !.panic = msg]
        ELSE [NoCfg EXCEPT !.state = "built",
                           !.domain = opts.Domain,
                           !.modules = opts.Modules,
                           !.urlPrefix = TrimSuffix(opts.URLPrefix, "/"),
                           !.moduleSet = {opts.Modules[k] : k \in 1..Len(opts.Modules)}]

\* the call GoGet(opts); requests are served by the value it returns
GoGetConstruct ==
    /\ handler = "goget" /\ cfg.state = "new"
    /\ cfg' = GoGetNew([Domain |-> cfg.domain, Modules |-> cfg.modules,
                        URLPrefix |-> cfg.urlPrefix])
    /\ UNCHANGED <<handler, reqT, body, rawForm, cin, cpc, mem, cout>>
    /\ UNCHANGED advars

\* strings.Split(path, "/"): the segments between the separators
RECURSIVE Split(_)
Split(path) ==
    IF \A k \in 1..Len(path) : path[k] # "/"
    THEN <<Join(path)>>
    ELSE LET k == CHOOSE k \in 1..Len(path) :
                      path[k] = "/" /\ \A j \in 1..(k - 1) : path[j] # "/"
         IN  <<Join(SubSeq(path, 1, k - 1))>> \o Split(SubSeq(path, k + 1, Len(path)))

\* lines 279-280: parts[1] is the second element; indexing past the end of
\* the slice is a run-time panic
GoGetSplit(i) ==
    /\ handler = "goget" /\ cfg.state = "built" /\ cpc[i] = "start"
    /\ LET parts == Split(cin[i].path)
       IN  IF Len(parts) < 2
           THEN /\ cout' = [cout EXCEPT ![i].panic = "index out of range"]
                /\ cpc' = [cpc EXCEPT ![i] = "panic"]
                /\ mem' = [mem EXCEPT ![Slot(i)].parts = parts]
           ELSE /\ mem' = [mem EXCEPT ![Slot(i)].parts = parts,
                                      ![Slot(i)].module = parts[2]]
                /\ cpc' = [cpc EXCEPT ![i] = "module"]
                /\ cout' = cout
    /\ UNCHANGED <<handler, reqT, body, rawForm, cfg, cin>>
    /\ UNCHANGED advars

\* lines 282-285
GoGetLookup(i) ==
    /\ handler = "goget" /\ cpc[i] = "module"
    /\ IF mem[Slot(i)].module \notin cfg.moduleSet
       THEN /\ cout' = [cout EXCEPT ![i] = ServeNext(@, cin[i].path)]
            /\ cpc' = [cpc EXCEPT ![i] = "done"]
       ELSE /\ cpc' = [cpc EXCEPT ![i] = "found"]
            /\ cout' = cout
    /\ UNCHANGED <<handler, reqT, body, rawForm, cfg, cin, mem>>
    /\ UNCHANGED advars

\* http.Redirect(w, r, url, code) for an absolute url: the Location header,
\* the status and a short HTML body
Redirect(o, url, code) ==
    LET h == WriteHeader([o.w EXCEPT !.ctype = "text/html; charset=utf-8"], code)
    IN  [o EXCEPT !.location = url,
                  !.w = Write(h.w, "<a href=\"" \o url \o "\">Permanent Redirect</a>.\n\n")]

\* lines 288-292
GoGetRedirect(i) ==
    /\ handler = "goget" /\ cpc[i] = "found"
    /\ cin[i].goget # "1"
    /\ cout' = [cout EXCEPT ![i] =
                   Redirect(@, Join(cfg.urlPrefix) \o "/" \o mem[Slot(i)].module,
                            StatusPermanentRedirect)]
    /\ cpc' = [cpc EXCEPT ![i] = "done"]
    /\ UNCHANGED <<handler, reqT, body, rawForm, cfg, cin, mem>>
    /\ UNCHANGED advars

\* what the template makes of Data{Domain, Module, URLPrefix}
Page(domain, module, urlPrefix) ==
    "<meta name=\"go-import\" content=\"" \o domain \o "/" \o module \o " git "
        \o urlPrefix \o "/" \o module \o "\">"

\* lines 294-302: t.Execute writes the page to w, which commits status 200
GoGetRender(i) ==
    /\ handler = "goget" /\ cpc[i] = "found"
    /\ cin[i].goget = "1"
    /\ cout' = [cout EXCEPT ![i].w =
                   Write(@, Page(cfg.domain, mem[Slot(i)].module, Join(cfg.urlPrefix)))]
    /\ cpc' = [cpc EXCEPT ![i] = "done"]
    /\ UNCHANGED <<handler, reqT, body, rawForm, cfg, cin, mem>>
    /\ UNCHANGED advars

----------------------------------------------------------------------------
(* VersionedAssets, lines 307-321.  A path is a sequence of units: "."     *)
(* and "/" are themselves, "a" is a byte of [a-z0-9] and "A" any other     *)
(* byte.                                                                   *)

AssetUnits == {"/", ".", "a", "A"}
AssetPaths == BoundedSeq(AssetUnits, MaxPath)

\* the character classes of the pattern
NotDot(u) == u # "."
LowerOrDigit(u) == u = "a"

\* versionedAssetMatcher run on p from unit k on: st is the part of
\* ^(?P<name>[^.]+)\.[a-z0-9]+(?P<extension>\.[a-z0-9]+)$ being matched, n the
\* units matched in this part, d1 and d2 the positions of the two dots.  The
\* result has the two groups of a match.
RECURSIVE Matcher(_, _, _, _, _, _)
Matcher(p, k, st, n, d1, d2) ==
    IF k > Len(p)
    THEN [ok |-> st = "extension" /\ n > 0,
          name |-> IF d1 > 0 THEN SubSeq(p, 1, d1 - 1) ELSE <<>>,
          extension |-> IF d2 > 0 THEN SubSeq(p, d2, Len(p)) ELSE <<>>]
    ELSE CASE st = "name" /\ NotDot(p[k]) -> Matcher(p, k + 1, "name", n + 1, d1, d2)
           [] st = "name" /\ p[k] = "." /\ n > 0 -> Matcher(p, k + 1, "version", 0, k, d2)
           [] st = "version" /\ LowerOrDigit(p[k]) -> Matcher(p, k + 1, "version", n + 1, d1, d2)
           [] st = "version" /\ p[k] = "." /\ n > 0 -> Matcher(p, k + 1, "extension", 0, d1, k)
           [] st = "extension" /\ LowerOrDigit(p[k]) -> Matcher(p, k + 1, "extension", n + 1, d1, d2)
           [] OTHER -> [ok |-> FALSE, name |-> <<>>, extension |-> <<>>]

\* Mutant: the replacement keeps the name only
ReplaceAllStringNameOnly(p) ==
    LET m == Matcher(p, 1, "name", 0, 0, 0)
    IN  IF m.ok THEN m.name ELSE p

\* versionedAssetMatcher.ReplaceAllString(path, `$1$2`)
ReplaceAllString(p) ==
    LET m == Matcher(p, 1, "name", 0, 0, 0)
    IN  IF m.ok THEN m.name \o m.extension ELSE p

\* versionedAssetMatcher.MatchString(path)
MatchString(p) == Matcher(p, 1, "name", 0, 0, 0).ok

\* lines 315-317: r.URL.Path after the if statement
AssetsRewrite(i) ==
    /\ handler = "assets" /\ cpc[i] = "start"
    /\ cout' = [cout EXCEPT ![i].urlPath =
                   IF MatchString(cin[i].path) THEN ReplaceAllString(cin[i].path)
                   ELSE cin[i].path]
    /\ cpc' = [cpc EXCEPT ![i] = "path"]
    /\ UNCHANGED <<handler, reqT, body, rawForm, cfg, cin, mem>>
    /\ UNCHANGED advars

\* line 319
AssetsNext(i) ==
    /\ handler = "assets" /\ cpc[i] = "path"
    /\ cout' = [cout EXCEPT ![i] = ServeNext(@, cout[i].urlPath)]
    /\ cpc' = [cpc EXCEPT ![i] = "done"]
    /\ UNCHANGED <<handler, reqT, body, rawForm, cfg, cin, mem>>
    /\ UNCHANGED advars

----------------------------------------------------------------------------
(* JSONHandler and FormHandler as closures that run once per request, in   *)
(* two steps each: up to the decoded request value, and from the call of   *)
(* the application function on.  What the application function returns or  *)
(* writes for a request is part of the request (cin[i].err, .res, .app).   *)

\* lines 73-92: var req Req, the limiter, the peek and the decode
ConcJSONDecode(i) ==
    /\ handler = "json" /\ cpc[i] = "start"
    /\ LET s == Stream(cin[i].body, reqT.hasMax, reqT.max)
           d == IF PeekSkips(s) THEN Ok(ZeroReq) ELSE Decode(s, ZeroReq)
       IN  IF d.err # ""
           THEN LET out == Respond(cout[i].w, StatusBadRequest,
                                   Envelope(DecodeErrorMessage(d.err)))
                IN  /\ cout' = [cout EXCEPT ![i].w = out.w]
                    /\ cpc' = [cpc EXCEPT ![i] = IF out.panic THEN "panic" ELSE "done"]
                    /\ mem' = [mem EXCEPT ![Slot(i)].req = ZeroReq]
           ELSE /\ mem' = [mem EXCEPT ![Slot(i)].req = d.val]
                /\ cpc' = [cpc EXCEPT ![i] = "invoke"]
                /\ cout' = cout
    /\ UNCHANGED <<handler, reqT, body, rawForm, cfg, cin>>
    /\ UNCHANGED advars

\* lines 94-123: h(w, r, req) and the response made of what it returns
ConcJSONServe(i) ==
    /\ handler = "json" /\ cpc[i] = "invoke"
    /\ LET e == cin[i].err
           r == cin[i].res
           enc == Encode(r)
           out == IF ~e.isNil
                  THEN Respond(cout[i].w, ErrorStatus(e), Envelope(e.msg))
                  ELSE IF enc.err # ""
                  THEN Respond(cout[i].w, StatusInternalServerError,
                               Envelope(EncodeErrorMessage(enc.err)))
                  ELSE Respond(cout[i].w, SuccessStatus(r), enc.data)
       IN  /\ cout' = [cout EXCEPT ![i].hCalls = @ + 1,
                                   ![i].hReq = mem[Slot(i)].req,
                                   ![i].w = out.w]
           /\ cpc' = [cpc EXCEPT ![i] = IF out.panic THEN "panic" ELSE "done"]
    /\ UNCHANGED <<handler, reqT, body, rawForm, cfg, cin, mem>>
    /\ UNCHANGED advars

\* the error message of lines 29-52 for a decoded form ("" when there is none)
FormError(d) ==
    IF d.err # "" THEN d.err
    ELSE IF reqT.validate # "absent" /\ Validate(reqT, d.val) # ""
    THEN FormValidationMessage(Validate(reqT, d.val))
    ELSE ""

\* lines 29-52: ParseForm, var req Req, WeakDecode and the validation
ConcFormDecode(i) ==
    /\ handler = "form" /\ cpc[i] = "start"
    /\ LET p == ParseForm(cin[i].rawForm)
       IN  \E d \in (IF p.err # "" THEN {Fail(p.err)} ELSE WeakDecode(FormMap(p.form))) :
              IF FormError(d) # ""
              THEN LET out == HttpError(cout[i].w, FormError(d), StatusBadRequest)
                   IN  /\ cout' = [cout EXCEPT ![i].w = out.w]
                       /\ cpc' = [cpc EXCEPT ![i] = IF out.panic THEN "panic" ELSE "done"]
                       /\ mem' = [mem EXCEPT ![Slot(i)].req = ZeroReq]
              ELSE /\ mem' = [mem EXCEPT ![Slot(i)].req = d.val]
                   /\ cpc' = [cpc EXCEPT ![i] = "invoke"]
                   /\ cout' = cout
    /\ UNCHANGED <<handler, reqT, body, rawForm, cfg, cin>>
    /\ UNCHANGED advars

\* line 55: h(w, r, req) writes the response
ConcFormServe(i) ==
    /\ handler = "form" /\ cpc[i] = "invoke"
    /\ cout' = [cout EXCEPT ![i].hCalls = @ + 1,
                            ![i].hReq = mem[Slot(i)].req,
                            ![i].w = Apply(@, cin[i].app)]
    /\ cpc' = [cpc EXCEPT ![i] = "done"]
    /\ UNCHANGED <<handler, reqT, body, rawForm, cfg, cin, mem>>
    /\ UNCHANGED advars

----------------------------------------------------------------------------
(* Specifications *)

Constructors == {"json", "form", "error", "csp", "goget", "assets"}

\* the requests a handler value is given
Requests(h) ==
    CASE h = "goget" -> {[NoRequest EXCEPT !.path = p, !.goget = g] :
                            p \in GoGetPaths, g \in GoGetParams}
      [] h = "assets" -> {[NoRequest EXCEPT !.path = p] : p \in AssetPaths}
      [] OTHER -> {NoRequest}

\* the arguments a constructor is given
Cfgs(h) ==
    CASE h = "csp" -> {[NoCfg EXCEPT !.optsFunc = f] : f \in OptsFuncs}
      [] h = "goget" -> {[NoCfg EXCEPT !.state = "new", !.domain = o.Domain,
                                       !.modules = o.Modules,
                                       !.urlPrefix = o.URLPrefix] :
                            o \in GoGetOptionsSet}
      [] OTHER -> {NoCfg}

\* the invocations in invs have not started
InitClosures(invs) ==
    /\ cin \in [invs -> Requests(handler)]
    /\ cpc = [i \in invs |-> "start"]
    /\ mem = [s \in invs |-> NoLocals]
    /\ cout = [i \in invs |-> NoResponse]

Init ==
    /\ handler \in Constructors
    /\ pc = "start"
    /\ reqT \in ReqTypes(handler)
    /\ body \in (IF handler = "json" THEN Bodies ELSE {<<>>})
    /\ rawForm \in (IF handler = "form" THEN RawForms ELSE {<<>>})
    /\ rd = [limited |-> FALSE, reads |-> 0]
    /\ form = <<>>
    /\ req = ZeroReq
    /\ stages = <<>>
    /\ hCalls = 0
    /\ hReq = ZeroReq
    /\ res = NilRes
    /\ err = NoErr
    /\ buf = NoBuf
    /\ w = NewWriter
    /\ calls = <<>>
    /\ cfg \in Cfgs(handler)
    /\ InitClosures({1})

Next ==
    \/ JSONWrap
    \/ JSONPeek
    \/ JSONDecode
    \/ JSONInvoke
    \/ JSONHandlerError
    \/ JSONEncode
    \/ JSONWrite
    \/ FormParse
    \/ FormDecode
    \/ FormValidate
    \/ FormInvoke
    \/ ErrorInvoke
    \/ ErrorRespond
    \/ \E i \in DOMAIN cpc : CSPOptions(i)
    \/ \E i \in DOMAIN cpc : CSPSetHeader(i)
    \/ \E i \in DOMAIN cpc : CSPNext(i)
    \/ GoGetConstruct
    \/ \E i \in DOMAIN cpc : GoGetSplit(i)
    \/ \E i \in DOMAIN cpc : GoGetLookup(i)
    \/ \E i \in DOMAIN cpc : GoGetRedirect(i)
    \/ \E i \in DOMAIN cpc : GoGetRender(i)
    \/ \E i \in DOMAIN cpc : AssetsRewrite(i)
    \/ \E i \in DOMAIN cpc : AssetsNext(i)

Spec == Init /\ [][Next]_vars

----------------------------------------------------------------------------
(* ConcSpec: one handler value serves NInv requests, the steps of their    *)
(* closures interleaved in any order.                                      *)

ConcConstructors == {"json", "form", "csp", "goget", "assets"}

\* the options function of the second test of TestContentSecurityPolicy
TestOptsFunc ==
    [isNil |-> FALSE,
     sets |-> [f \in {"DefaultSrc", "FontSrc", "ScriptSrc"} |->
                  IF f = "DefaultSrc" THEN "https:" ELSE ""]]

ConcCfgs(h) ==
    CASE h = "csp" -> {[NoCfg EXCEPT !.optsFunc = f] : f \in {NilOptsFunc, TestOptsFunc}}
      [] h = "goget" -> {[NoCfg EXCEPT !.state = "new", !.domain = "maragu.dev",
                                       !.modules = ms,
                                       !.urlPrefix = <<"http", "s://github.com/maragudk", "/">>] :
                            ms \in {<<"httph">>, <<"httph", "x">>}}
      [] OTHER -> {NoCfg}

ConcRequests(h) ==
    CASE h = "json" ->
            {[NoRequest EXCEPT !.body = b, !.err = r[1], !.res = r[2]] :
                b \in {<<>>, <<"{", "k", "}">>, <<"x">>},
                r \in {<<NoErr, NilRes>>,
                       <<NoErr, [val |-> "msg", hasCode |-> TRUE, code |-> 202]>>,
                       <<PlainErr, NilRes>>}}
      [] h = "form" ->
            {[NoRequest EXCEPT !.rawForm = f, !.app = a] :
                f \in {<<>>, <<[k |-> "Name", v |-> "Me"]>>, <<BadPair>>,
                       <<[k |-> "name", v |-> "20"], [k |-> "age", v |-> "20"]>>},
                a \in AppResponses}
      [] h = "goget" ->
            {[NoRequest EXCEPT !.path = p, !.goget = g] :
                p \in {<<>>, <<"/">>, <<"/", "httph">>, <<"/", "x">>},
                g \in {"", "1"}}
      [] h = "assets" ->
            {[NoRequest EXCEPT !.path = p] :
                p \in {<<"/", "a", ".", "a", ".", "a">>, <<"/", "a", ".", "a">>,
                       <<"/", "A", ".", "a", ".", "a">>}}
      [] OTHER -> {NoRequest}

ConcInit ==
    /\ handler \in ConcConstructors
    /\ pc = "start"
    /\ reqT \in ReqTypes(handler)
    /\ body = <<>>
    /\ rawForm = <<>>
    /\ rd = [limited |-> FALSE, reads |-> 0]
    /\ form = <<>>
    /\ req = ZeroReq
    /\ stages = <<>>
    /\ hCalls = 0
    /\ hReq = ZeroReq
    /\ res = NilRes
    /\ err = NoErr
    /\ buf = NoBuf
    /\ w = NewWriter
    /\ calls = <<>>
    /\ cfg \in ConcCfgs(handler)
    /\ cin \in [1..NInv -> ConcRequests(handler)]
    /\ cpc = [i \in 1..NInv |-> "start"]
    /\ mem = [s \in 1..NInv |-> NoLocals]
    /\ cout = [i \in 1..NInv |-> NoResponse]

ConcNext ==
    \/ \E i \in DOMAIN cpc : ConcJSONDecode(i)
    \/ \E i \in DOMAIN cpc : ConcJSONServe(i)
    \/ \E i \in DOMAIN cpc : ConcFormDecode(i)
    \/ \E i \in DOMAIN cpc : ConcFormServe(i)
    \/ \E i \in DOMAIN cpc : CSPOptions(i)
    \/ \E i \in DOMAIN cpc : CSPSetHeader(i)
    \/ \E i \in DOMAIN cpc : CSPNext(i)
    \/ GoGetConstruct
    \/ \E i \in DOMAIN cpc : GoGetSplit(i)
    \/ \E i \in DOMAIN cpc : GoGetLookup(i)
    \/ \E i \in DOMAIN cpc : GoGetRedirect(i)
    \/ \E i \in DOMAIN cpc : GoGetRender(i)
    \/ \E i \in DOMAIN cpc : AssetsRewrite(i)
    \/ \E i \in DOMAIN cpc : AssetsNext(i)

ConcSpec == ConcInit /\ [][ConcNext]_vars

----------------------------------------------------------------------------
(* Properties *)

Finished == pc \in {"done", "panic"}
AdapterCalls == SelectSeq(calls, LAMBDA c : c.by = "adapter")
AppCalls == SelectSeq(calls, LAMBDA c : c.by = "app")
IsPrefix(s, t) == Len(s) <= Len(t) /\ SubSeq(t, 1, Len(s)) = s
StageSet == {stages[i] : i \in 1..Len(stages)}

\* C1: a handler built by JSONHandler or FormHandler writes at most one
\* response per request: over all the calls made on w there is at most one
\* WriteHeader and at most one Write, the WriteHeader comes first, and the
\* adapter does not write once the application function has written.
C1_AtMostOneResponse ==
    handler \in {"json", "form"} =>
        /\ Len(calls) <= 2
        /\ (Len(calls) >= 1 => calls[1].op = "WriteHeader")
        /\ (Len(calls) = 2 => calls[2].op = "Write" /\ calls[2].by = calls[1].by)
        /\ (w.body # "" => w.wroteHeader)

\* C1 witness: a JSON request that failed in the application function has
\* been answered with one status and one body.
C1_Witness ==
    /\ handler = "json" /\ pc = "done" /\ ~err.isNil
    /\ Len(calls) = 2 /\ w.wroteHeader /\ w.body # ""

\* The request value the decode stage of JSONHandler hands on, and whether
\* it hands one on at all, as functions of what r.Body delivers.
DecodeSkipped == JSONStream.bytes = <<>>
DecodeResult == Decode(JSONStream, ZeroReq)
DecodedValue == IF DecodeSkipped THEN ZeroReq ELSE DecodeResult.val
DecodeSucceeds == DecodeSkipped \/ DecodeResult.err = ""

\* C2 (as claimed): in a JSONHandler whose request type has Validate(), a
\* decoded request value (or the zero value of a request without body) that
\* Validate() rejects is answered with status 400 and the body
\* {"Error":"invalid request body: <cause>"}, and h is never invoked.
C2_ValidationFailureIs400 ==
    (/\ handler = "json"
     /\ reqT.validate # "absent"
     /\ DecodeSucceeds
     /\ Validate(reqT, DecodedValue) # "")
    => /\ hCalls = 0
       /\ Finished =>
             /\ w.status = 400
             /\ w.body = "{\"Error\":\"invalid request body: "
                            \o Validate(reqT, DecodedValue) \o "\"}\n"

DecodeCauses == {"EOF", "unexpected EOF", "invalid character", TypeError,
                 "http: request body too large"}

\* C3 (as claimed): in a JSONHandler whose request type declares a limit
\* L >= 0, the limit is applied before r.Body is read, and every body longer
\* than L is answered with status 400 and an Error Envelope holding a decode
\* error, h never being invoked.  (The formula accepts any decode cause in
\* the envelope, so a violation does not rest on the wording of the cause.)
C3_OversizedBodyIs400 ==
    (handler = "json" /\ reqT.hasMax) =>
        /\ (rd.reads > 0 => rd.limited)
        /\ Len(body) > reqT.max =>
              /\ hCalls = 0
              /\ Finished =>
                    /\ w.status = 400
                    /\ \E c \in DecodeCauses :
                          w.body = "{\"Error\":\"error decoding request body as JSON: "
                                      \o c \o "\"}\n"

C6_EncodeBeforeCommit ==
    (handler = "json" /\ hCalls = 1 /\ err.isNil) =>
        /\ (calls # <<>> \/ w # NewWriter) => buf.done
        /\ (Finished /\ Encode(res).err # "") =>
              /\ w.status = 500
              /\ w.body = "{\"Error\":\"error encoding response body as JSON: "
                             \o Encode(res).err \o "\"}\n"
              /\ Len(calls) = 2 /\ calls[1].code = 500

\* C6 witness: a response value that declares status 202 and cannot be
\* encoded was answered with status 500.
C6_Witness ==
    /\ handler = "json" /\ pc = "done"
    /\ res.val = "chan" /\ res.hasCode /\ err.isNil
    /\ w.status = 500

FinalWithBody(c) == c >= 200 /\ c <= 999 /\ c # 204 /\ c # 304

FormStageMessage(st) ==
    CASE st = "parse"    -> {ParseForm(rawForm).err} \ {""}
      [] st = "decode"   -> {d.err : d \in WeakDecode(FormMap(form))} \ {""}
      [] st = "validate" -> IF Validate(reqT, req) = "" THEN {}
                            ELSE {"invalid form: " \o Validate(reqT, req)}
      [] OTHER           -> {}

FormStageOrder ==
    IF reqT.validate = "absent" THEN <<"parse", "decode", "invoke">>
    ELSE <<"parse", "decode", "validate", "invoke">>

\* C8: in a FormHandler the stages parse, decode, validate (only when the
\* request type has Validate()) and invoke are entered in that order; h is
\* invoked at most once, and exactly once iff no earlier stage failed; a
\* failed stage is answered with status 400 and that stage's message (for
\* validation "invalid form: <cause>") and no later stage is entered; when
\* h is invoked the adapter itself makes no call on w.
C8_FormStages ==
    handler = "form" =>
        /\ IsPrefix(stages, FormStageOrder)
        /\ hCalls = (IF "invoke" \in StageSet THEN 1 ELSE 0)
        /\ hCalls = 1 =>
              /\ AdapterCalls = <<>>
              /\ ParseForm(rawForm).err = ""
              /\ \E d \in WeakDecode(FormMap(form)) : d.err = "" /\ d.val = hReq
              /\ Validate(reqT, hReq) = ""
        /\ Finished =>
              \/ hCalls = 1 /\ pc = "done"
              \/ /\ hCalls = 0 /\ pc = "done"
                 /\ w.status = 400
                 /\ \E m \in FormStageMessage(stages[Len(stages)]) :
                       w.body = m \o "\n"
                 /\ calls = AdapterCalls

\* C8 witness: a request whose Validate() failed was answered by the
\* validate stage and h was not invoked.
C8_Witness ==
    /\ handler = "form" /\ pc = "done"
    /\ stages = <<"parse", "decode", "validate">>
    /\ w.status = 400 /\ w.body = "invalid form: invalid\n"
    /\ hCalls = 0

Fields == {"Name", "Age", "Hobbies"}
MatchingKeys(field) == {k \in DOMAIN form : Fold(k) = Fold(field)}

\* The weak coercion of the values vs submitted under one key to a field
Coerced(field, vs) ==
    CASE field = "Name"    -> vs[1]
      [] field = "Age"     -> IF vs[1] = "20" THEN 20 ELSE 0
      [] OTHER             -> vs

\* C9 (as claimed): the value handed to h has, for every submitted key that
\* matches a field case-insensitively, that field equal to the weak
\* coercion of the key's values (its single value, or the list of its
\* values in submission order); fields without a submitted key are zero.
C9_EveryMatchingKey ==
    (handler = "form" /\ hCalls = 1) =>
        \A f \in Fields :
            /\ \A k \in MatchingKeys(f) : hReq[f] = Coerced(f, form[k])
            /\ MatchingKeys(f) = {} => hReq[f] = ZeroReq[f]

\* C9 (amended): each field is the weak coercion of the values of one
\* submitted key that matches it: of the key spelled exactly as the field
\* when it was submitted, otherwise of one of the keys that match it
\* case-insensitively (so of the only one, when a single key matches);
\* fields without a matching key are zero and other keys are ignored.
C9_OneMatchingKey ==
    (handler = "form" /\ hCalls = 1) =>
        \A f \in Fields :
            /\ f \in MatchingKeys(f) => hReq[f] = Coerced(f, form[f])
            /\ MatchingKeys(f) # {} =>
                  \E k \in MatchingKeys(f) : hReq[f] = Coerced(f, form[k])
            /\ MatchingKeys(f) = {} => hReq[f] = ZeroReq[f]

\* C9 witness: the key hobbies, submitted twice, reached h as the list of
\* its two values in submission order.
C9_Witness ==
    /\ handler = "form" /\ hCalls = 1
    /\ rawForm = <<[k |-> "hobbies", v |-> "Me"], [k |-> "hobbies", v |-> "20"]>>
    /\ hReq = [Name |-> "", Age |-> 0, Hobbies |-> <<"Me", "20">>]

----------------------------------------------------------------------------
(* Middleware properties *)

Invocations == DOMAIN cpc

\* the strings of a sequence with sep between neighbours
RECURSIVE JoinWith(_, _)
JoinWith(ss, sep) ==
    IF ss = <<>> THEN ""
    ELSE IF Len(ss) = 1 THEN ss[1]
    ELSE ss[1] \o sep \o JoinWith(Tail(ss), sep)

\* "<directive> <value>" for every directive with a non-empty value, in the
\* fixed order, joined by "; "
PolicyOf(opts) ==
    LET set == SelectSeq(Directives, LAMBDA d : opts[d.field] # "")
    IN  JoinWith([k \in 1..Len(set) |-> set[k].name \o " " \o opts[set[k].field]], "; ")

\* the options after the options function has been applied to the defaults
EffectiveOptions == ApplyOptsFunc(cfg.optsFunc, DefaultOptions)

\* The part of C12 that does not depend on the defaults: the header is set
\* before next is called, next is called once, and the header lists the
\* non-empty directives of the effective options.
C12_HeaderFromOptions ==
    handler = "csp" =>
        \A i \in Invocations :
            /\ cout[i].nextCalls > 0 =>
                   cout[i].csp # Unset /\ cout[i].nextCsp = cout[i].csp
            /\ cpc[i] = "done" =>
                   cout[i].nextCalls = 1 /\ cout[i].csp = PolicyOf(EffectiveOptions)

\* the header the claim gives for a nil options function
NilPolicy ==
    "default-src 'none'; connect-src 'self'; font-src 'self'; img-src 'self'; "
    \o "manifest-src 'self'; script-src 'self'; style-src 'self'"

\* C12: ContentSecurityPolicy sets the header before calling next and always
\* calls next; the header is the fixed-order list of the non-empty directives
\* joined by "; "; and with a nil options function the header is the one that
\* names default-src, connect-src, font-src, img-src, manifest-src, script-src
\* and style-src.
C12_ContentSecurityPolicy ==
    /\ C12_HeaderFromOptions
    /\ handler = "csp" /\ cfg.optsFunc.isNil =>
           \A i \in Invocations : cpc[i] = "done" => cout[i].csp = NilPolicy

\* an invocation has returned or panicked
Ended(i) == cpc[i] \in {"done", "panic"}

\* the units of path from position k up to the next "/" or the end
RECURSIVE SegmentFrom(_, _)
SegmentFrom(path, k) ==
    IF k > Len(path) \/ path[k] = "/" THEN ""
    ELSE path[k] \o SegmentFrom(path, k + 1)

\* the first segment of a path: what follows the leading "/"
Rooted(path) == path # <<>> /\ path[1] = "/"
FirstSegment(path) == SegmentFrom(path, IF Rooted(path) THEN 2 ELSE 1)

\* the three outcomes of a GoGet invocation
Forwarded(i) ==
    /\ cpc[i] = "done" /\ cout[i].nextCalls = 1
    /\ cout[i].w = NewWriter /\ cout[i].location = ""
RedirectedTo(i, module) ==
    /\ cpc[i] = "done" /\ cout[i].nextCalls = 0
    /\ cout[i].w.status = StatusPermanentRedirect
    /\ cout[i].location = Join(cfg.urlPrefix) \o "/" \o module
RenderedFor(i, module) ==
    /\ cpc[i] = "done" /\ cout[i].nextCalls = 0
    /\ cout[i].w.status = StatusOK
    /\ cout[i].w.body = Page(cfg.domain, module, Join(cfg.urlPrefix))

\* the outcome the first segment and the go-get parameter call for
OutcomeFor(i) ==
    LET module == FirstSegment(cin[i].path)
    IN  IF module \notin cfg.moduleSet THEN Forwarded(i)
        ELSE IF cin[i].goget # "1" THEN RedirectedTo(i, module)
        ELSE RenderedFor(i, module)

\* The part of C13 about paths that begin with "/": the outcome is the one
\* the first segment and the go-get parameter call for.
C13_RootedOutcomes ==
    handler = "goget" =>
        \A i \in Invocations :
            Ended(i) /\ Rooted(cin[i].path) => OutcomeFor(i)

\* C13: every request served by a GoGet middleware ends in exactly one of
\* three outcomes, decided by the first path segment and the go-get
\* parameter: forwarded to next with nothing written when the segment is not
\* a configured module, a 308 redirect to <URLPrefix>/<module> without next
\* when it is and go-get is not "1", the go-get page with status 200 without
\* next when it is and go-get is "1".
C13_ThreeOutcomes ==
    handler = "goget" =>
        \A i \in Invocations : Ended(i) => OutcomeFor(i)

\* C15: once GoGet has been constructed without panicking, serving a request
\* never panics, whatever the URL path (empty or without "/" included):
\* every request ends forwarded, redirected or rendered.
C15_ServingNeverPanics ==
    handler = "goget" /\ cfg.state = "built" =>
        \A i \in Invocations :
            /\ cpc[i] # "panic"
            /\ Ended(i) =>
                   \/ Forwarded(i)
                   \/ \E m \in cfg.moduleSet : RedirectedTo(i, m) \/ RenderedFor(i, m)

\* p has the form <name>.<version><.extension> with the dots at d1 and d2:
\* a name without dots, a version and an extension of lowercase letters and
\* digits, none of them empty
HasForm(p, d1, d2) ==
    /\ 1 < d1 /\ d1 + 1 < d2 /\ d2 < Len(p)
    /\ p[d1] = "." /\ p[d2] = "."
    /\ \A k \in 1..(d1 - 1) : p[k] # "."
    /\ \A k \in (d1 + 1)..(d2 - 1) : p[k] = "a"
    /\ \A k \in (d2 + 1)..Len(p) : p[k] = "a"

Versioned(p) == \E d1, d2 \in 1..Len(p) : HasForm(p, d1, d2)

\* p without its version segment
Unversioned(p) ==
    LET d == CHOOSE d \in (1..Len(p)) \X (1..Len(p)) : HasForm(p, d[1], d[2])
    IN  SubSeq(p, 1, d[1] - 1) \o SubSeq(p, d[2], Len(p))

\* the rewrite of lines 315-317 as a function of the path
Rewritten(p) == IF MatchString(p) THEN ReplaceAllString(p) ELSE p

\* C14: VersionedAssets calls next exactly once for every request; the path
\* next sees is the original path without its version segment when the whole
\* path has the form <name>.<version><.extension>, and the original path
\* otherwise; rewriting the rewritten path changes nothing.
C14_VersionedAssets ==
    handler = "assets" =>
        \A i \in Invocations :
            /\ cout[i].nextCalls <= 1
            /\ cpc[i] = "done" =>
                   /\ cout[i].nextCalls = 1
                   /\ cout[i].nextPath = IF Versioned(cin[i].path)
                                         THEN Unversioned(cin[i].path)
                                         ELSE cin[i].path
                   /\ Rewritten(cout[i].nextPath) = cout[i].nextPath

\* a request for /a.a.a has been forwarded as /a.a
C14_Witness ==
    /\ handler = "assets"
    /\ cpc[1] = "done"
    /\ cin[1].path = <<"/", "a", ".", "a", ".", "a">>
    /\ cout[1].nextPath = <<"/", "a", ".", "a">>
    /\ cout[1].nextCalls = 1

----------------------------------------------------------------------------
(* Concurrent invocations *)

\* how a closure that answered with out has ended
EndOf(o, out) ==
    [pc |-> IF out.panic THEN "panic" ELSE "done", out |-> [o EXCEPT !.w = out.w]]

\* A handler value serving request r and no other: the ways the invocation
\* can end, as its final position and what the client and next observed.
AloneJSON(r) ==
    LET s == Stream(r.body, reqT.hasMax, reqT.max)
        d == IF PeekSkips(s) THEN Ok(ZeroReq) ELSE Decode(s, ZeroReq)
        called == [NoResponse EXCEPT !.hCalls = 1, !.hReq = d.val]
        enc == Encode(r.res)
    IN  {IF d.err # ""
         THEN EndOf(NoResponse, Respond(NewWriter, StatusBadRequest,
                                        Envelope(DecodeErrorMessage(d.err))))
         ELSE IF ~r.err.isNil
         THEN EndOf(called, Respond(NewWriter, ErrorStatus(r.err), Envelope(r.err.msg)))
         ELSE IF enc.err # ""
         THEN EndOf(called, Respond(NewWriter, StatusInternalServerError,
                                    Envelope(EncodeErrorMessage(enc.err))))
         ELSE EndOf(called, Respond(NewWriter, SuccessStatus(r.res), enc.data))}

AloneForm(r) ==
    LET p == ParseForm(r.rawForm)
    IN  {IF FormError(d) # ""
         THEN EndOf(NoResponse, HttpError(NewWriter, FormError(d), StatusBadRequest))
         ELSE [pc |-> "done",
               out |-> [NoResponse EXCEPT !.hCalls = 1, !.hReq = d.val,
                                          !.w = Apply(NewWriter, r.app)]] :
         d \in (IF p.err # "" THEN {Fail(p.err)} ELSE WeakDecode(FormMap(p.form)))}

AloneCSP(r) ==
    LET v == Directive(ApplyOptsFunc(cfg.optsFunc, DefaultOptions), Len(Directives))
        header == Join(TrimSuffix(TrimSpace(v), ";"))
    IN  {[pc |-> "done", out |-> ServeNext([NoResponse EXCEPT !.csp = header], r.path)]}

AloneGoGet(r) ==
    LET parts == Split(r.path)
        url == Join(cfg.urlPrefix) \o "/" \o parts[2]
    IN  {IF Len(parts) < 2
         THEN [pc |-> "panic", out |-> [NoResponse EXCEPT !.panic = "index out of range"]]
         ELSE IF parts[2] \notin cfg.moduleSet
         THEN [pc |-> "done", out |-> ServeNext(NoResponse, r.path)]
         ELSE IF r.goget # "1"
         THEN [pc |-> "done", out |-> Redirect(NoResponse, url, StatusPermanentRedirect)]
         ELSE [pc |-> "done",
               out |-> [NoResponse EXCEPT !.w =
                           Write(@, Page(cfg.domain, parts[2], Join(cfg.urlPrefix)))]]}

AloneAssets(r) ==
    {[pc |-> "done",
      out |-> ServeNext([NoResponse EXCEPT !.urlPath = Rewritten(r.path)],
                        Rewritten(r.path))]}

ServedAlone(r) ==
    CASE handler = "json" -> AloneJSON(r)
      [] handler = "form" -> AloneForm(r)
      [] handler = "csp" -> AloneCSP(r)
      [] handler = "goget" -> AloneGoGet(r)
      [] handler = "assets" -> AloneAssets(r)
      [] OTHER -> {}

\* every invocation that has ended has ended as it would have alone
EndsAsAlone ==
    \A i \in Invocations :
        Ended(i) => [pc |-> cpc[i], out |-> cout[i]] \in ServedAlone(cin[i])

\* C11: for any interleaving of concurrent invocations of one handler value
\* built by FormHandler, JSONHandler, ContentSecurityPolicy, GoGet or
\* VersionedAssets, each request's response is the one it would get served
\* alone, and the state captured at construction is never modified while
\* requests are served.
C11_ConcurrentInvocations ==
    /\ [](handler \in ConcConstructors => EndsAsAlone)
    /\ [][cfg.state = "built" => cfg' = cfg]_vars

\* two requests with different bodies are in flight together: the first has
\* been answered from its own decoded value after the second was decoded
C11_Witness ==
    /\ handler = "json"
    /\ Cardinality(Invocations) > 1
    /\ cin[1].body = <<"{", "k", "}">> /\ cin[2].body = <<>>
    /\ cpc[1] = "done" /\ cpc[2] = "invoke"
    /\ cout[1].hCalls = 1 /\ cout[1].hReq.Name = "Me"
    /\ mem[Slot(2)].req = ZeroReq

====
